---- MODULE Spec2Model ----
(***************************************************************************)
(* OS-aware path algebra of util/src/file_paths/os_based.rs.               *)
(*                                                                         *)
(* A path is a sequence of one-character strings.  The functions of        *)
(* os_based.rs (resolve, resolve_n, resolve_one, is_absolute, relative)    *)
(* are operators translated from the source; the generic primitives of    *)
(* the parent module (super::resolve, super::relative,                     *)
(* super::STARTS_WITH_PATH_SEPARATOR) follow the contract of section 4.2   *)
(* of the specification.  Init draws the function called and its inputs;   *)
(* the call is one action, which stores what the function returned (or     *)
(* Abort for a panic).                                                     *)
(***************************************************************************)
EXTENDS Integers, Sequences, FiniteSets, TLC

VARIABLES callee, path1, path2, paths, manipulation, op, ret, prev, flag

vars == <<callee, path1, path2, paths, manipulation, op, ret, prev, flag>>

---------------------------------------------------------------------------
(* Bounds of the model *)

\* longest path handed to the one-path operations
MaxLenOne == 4
\* longest path handed to the two-path operations
MaxLenTwo == 3
\* longest sequence handed to resolve_n
MaxPaths == 4

---------------------------------------------------------------------------
(* Characters and strings *)

Letters == {"C", "a"}

Separators == {"/", "\\"}

Chars == Separators \cup Letters \cup {":", "."}

Str(n) == UNION {[1..k -> Chars] : k \in 0..n}

\* the elements resolve_n is folded over
FoldPaths ==
    { <<>>, <<"a">>, <<".", ".">>, <<"/", "a">>, <<"\\", "\\", "C">>,
      <<"C", ":">>, <<"a", ":", "a">>, <<".", "/", "C", ":">> }

PathLists == UNION {[1..k -> FoldPaths] : k \in 0..MaxPaths}

\* a panic: the call returns no value
Abort == <<"abort">>

\* s[from..] of Rust: the suffix after the first n characters, a panic when out of range
SliceFrom(s, n) == IF n > Len(s) THEN Abort ELSE SubSeq(s, n + 1, Len(s))

---------------------------------------------------------------------------
(* The generic primitives of the parent module (specification, 4.2) *)

STARTS_WITH_PATH_SEPARATOR(p) == Len(p) >= 1 /\ p[1] \in Separators

RECURSIVE SplitFrom(_, _, _)
SplitFrom(p, i, cur) ==
    IF i > Len(p)
    THEN (IF cur = <<>> THEN <<>> ELSE <<cur>>)
    ELSE IF p[i] \in Separators
         THEN (IF cur = <<>> THEN <<>> ELSE <<cur>>) \o SplitFrom(p, i + 1, <<>>)
         ELSE SplitFrom(p, i + 1, Append(cur, p[i]))

\* the non-empty components between separators
Segments(p) == SplitFrom(p, 1, <<>>)

Dot == <<".">>

DotDot == <<".", ".">>

RECURSIVE CollapseFrom(_, _, _)
CollapseFrom(segs, i, stack) ==
    IF i > Len(segs) THEN stack
    ELSE IF segs[i] = Dot THEN CollapseFrom(segs, i + 1, stack)
    ELSE IF segs[i] = DotDot /\ stack # <<>> /\ stack[Len(stack)] # DotDot
         THEN CollapseFrom(segs, i + 1, SubSeq(stack, 1, Len(stack) - 1))
         ELSE CollapseFrom(segs, i + 1, Append(stack, segs[i]))

\* "." dropped, ".." pops the previous real segment when there is one, else is kept
Collapse(segs) == CollapseFrom(segs, 1, <<>>)

RECURSIVE Join(_)
Join(segs) ==
    IF segs = <<>> THEN <<>>
    ELSE IF Len(segs) = 1 THEN segs[1]
    ELSE segs[1] \o <<"/">> \o Join(Tail(segs))

super_resolve(base, addition) ==
    IF STARTS_WITH_PATH_SEPARATOR(addition)
    THEN <<"/">> \o Join(Collapse(Segments(addition)))
    ELSE LET segs == Collapse(Segments(base) \o Segments(addition))
         IN  IF STARTS_WITH_PATH_SEPARATOR(base)
             THEN <<"/">> \o Join(segs)
             ELSE Join(segs)

RECURSIVE SharedLen(_, _)
SharedLen(a, b) ==
    IF a # <<>> /\ b # <<>> /\ a[1] = b[1]
    THEN 1 + SharedLen(Tail(a), Tail(b))
    ELSE 0

super_relative(from, to) ==
    LET fs == Collapse(Segments(from))
        ts == Collapse(Segments(to))
        k  == SharedLen(fs, ts)
    IN  Join([i \in 1..(Len(fs) - k) |-> DotDot] \o SubSeq(ts, k + 1, Len(ts)))

---------------------------------------------------------------------------
(* os_based.rs *)

Default == "Default"

Windows == "Windows"

OsPathManipulation == {Default, Windows}

\* what a pattern finds when it does not match
NoMatch == <<>>

IsLetter(c) == c \in Letters

\* ^((\\\\)|([A-Za-z]\:)) : the text the pattern finds at the start of p
STARTS_WITH_WINDOWS_PATH_PREFIX(p) ==
    IF Len(p) >= 2 /\ p[1] = "\\" /\ p[2] = "\\" THEN SubSeq(p, 1, 2)
    ELSE IF Len(p) >= 2 /\ IsLetter(p[1]) /\ p[2] = ":" THEN SubSeq(p, 1, 2)
    ELSE NoMatch

\* ^((\\\\)|([A-Za-z]\:)|[\/\\]([^\\]|$)) : the text the pattern finds at the start of p
STARTS_WITH_WINDOWS_PATH_PREFIX_OR_SLASH(p) ==
    IF Len(p) >= 2 /\ p[1] = "\\" /\ p[2] = "\\" THEN SubSeq(p, 1, 2)
    ELSE IF Len(p) >= 2 /\ IsLetter(p[1]) /\ p[2] = ":" THEN SubSeq(p, 1, 2)
    ELSE IF Len(p) >= 2 /\ p[1] \in Separators /\ p[2] # "\\" THEN SubSeq(p, 1, 2)
    ELSE IF Len(p) = 1 /\ p[1] \in Separators THEN SubSeq(p, 1, 1)
    ELSE NoMatch

UNC_PREFIX == <<"\\", "\\">>

\* a slip: the prefix is dropped, not replaced by "/"
ReplacePrefix_Dropped(path) ==
    SubSeq(path, Len(STARTS_WITH_WINDOWS_PATH_PREFIX(path)) + 1, Len(path))

\* STARTS_WITH_WINDOWS_PATH_PREFIX.replace(path, "/")
ReplacePrefix(path) ==
    LET m == STARTS_WITH_WINDOWS_PATH_PREFIX(path)
    IN  IF m = NoMatch THEN path
        ELSE <<"/">> \o SubSeq(path, Len(m) + 1, Len(path))

\* a slip: prefixed.first() for prefixed.last()
LastPrefixed_First(p1, p2) ==
    IF STARTS_WITH_WINDOWS_PATH_PREFIX(p1) # NoMatch THEN p1 ELSE p2

\* prefixed.last(): the last of path1, path2 that the prefix pattern matches
LastPrefixed(p1, p2) ==
    IF STARTS_WITH_WINDOWS_PATH_PREFIX(p2) # NoMatch THEN p2 ELSE p1

\* UNC_PREFIX + &r[1..]
ReattachUnc(r) ==
    IF SliceFrom(r, 1) = Abort THEN Abort ELSE UNC_PREFIX \o SliceFrom(r, 1)

\* r: super::resolve of the two paths with their prefix replaced
GenericResult(p1, p2) == super_resolve(ReplacePrefix(p1), ReplacePrefix(p2))

resolve(p1, p2, m) ==
    IF m = Default THEN super_resolve(p1, p2)
    ELSE IF STARTS_WITH_WINDOWS_PATH_PREFIX(p1) = NoMatch
            /\ STARTS_WITH_WINDOWS_PATH_PREFIX(p2) = NoMatch
         THEN super_resolve(p1, p2)
         ELSE LET prefix == STARTS_WITH_WINDOWS_PATH_PREFIX(LastPrefixed(p1, p2))
                  r      == GenericResult(p1, p2)
              IN  IF prefix = NoMatch THEN Abort
                  ELSE IF prefix = UNC_PREFIX THEN ReattachUnc(r)
                  ELSE prefix \o r

\* paths[2..].iter().fold(initial_path, |a, b| resolve(a, b, manipulation))
RECURSIVE FoldResolve(_, _, _, _)
FoldResolve(a, ps, i, m) ==
    IF a = Abort THEN Abort
    ELSE IF i > Len(ps) THEN a
    ELSE FoldResolve(resolve(a, ps[i], m), ps, i + 1, m)

\* a slip: the fold over paths[1..] for paths[2..]
resolve_n_FoldFromSecond(ps, m) ==
    IF Len(ps) = 0 THEN <<>>
    ELSE IF Len(ps) = 1 THEN resolve(ps[1], <<>>, m)
    ELSE FoldResolve(resolve(ps[1], ps[2], m), ps, 2, m)

resolve_n(ps, m) ==
    IF Len(ps) = 0 THEN <<>>
    ELSE IF Len(ps) = 1 THEN resolve(ps[1], <<>>, m)
    ELSE FoldResolve(resolve(ps[1], ps[2], m), ps, 3, m)

resolve_one(path, m) == resolve_n(<<path>>, m)

is_absolute(path, m) ==
    IF m = Default THEN STARTS_WITH_PATH_SEPARATOR(path)
    ELSE STARTS_WITH_WINDOWS_PATH_PREFIX_OR_SLASH(path) # NoMatch

\* a slip: the prefix-only pattern for is_absolute
BothAbsolute_PrefixOnly(from_path, to_path, m) ==
    /\ STARTS_WITH_WINDOWS_PATH_PREFIX(from_path) # NoMatch
    /\ STARTS_WITH_WINDOWS_PATH_PREFIX(to_path) # NoMatch

\* [from_path, to_path].iter().all(|path| is_absolute(path, manipulation))
BothAbsolute(from_path, to_path, m) ==
    is_absolute(from_path, m) /\ is_absolute(to_path, m)

\* paths[i][prefix.len()..], with "/" put in front when it starts with no separator
StripPrefix(path, prefix) ==
    LET rest == SliceFrom(path, Len(prefix))
    IN  IF rest = Abort THEN Abort
        ELSE IF STARTS_WITH_PATH_SEPARATOR(rest) THEN rest
        ELSE <<"/">> \o rest

\* a slip: the target is returned as given, not resolved
CrossRoot_Unresolved(to_path, m) == to_path

\* return resolve_one(to_path, manipulation)
CrossRoot(to_path, m) == resolve_one(to_path, m)

\* a slip: == for !=
PrefixDiffers_Inverted(prefix, prefix1) == prefix = prefix1

\* prefix != prefixes[1]
PrefixDiffers(prefix, prefix1) == prefix # prefix1

relative(from_path, to_path, m) ==
    IF m = Default THEN super_relative(from_path, to_path)
    ELSE IF ~BothAbsolute(from_path, to_path, m) THEN Abort
    ELSE LET prefix  == STARTS_WITH_WINDOWS_PATH_PREFIX_OR_SLASH(from_path)
             prefix1 == STARTS_WITH_WINDOWS_PATH_PREFIX_OR_SLASH(to_path)
         IN  IF prefix = NoMatch \/ prefix1 = NoMatch THEN Abort
             ELSE IF PrefixDiffers(prefix, prefix1) THEN CrossRoot(to_path, m)
             ELSE LET f == StripPrefix(from_path, prefix)
                      t == StripPrefix(to_path, prefix)
                  IN  IF f = Abort \/ t = Abort THEN Abort
                      ELSE super_relative(f, t)

---------------------------------------------------------------------------
(* The calls *)

Idle == "idle"

NoValue == <<"none">>

InitCommon ==
    /\ manipulation \in OsPathManipulation
    /\ op = Idle
    /\ ret = NoValue
    /\ prev = NoValue
    /\ flag = FALSE

\* one path: the input of is_absolute and resolve_one
OnePath ==
    /\ path1 \in Str(MaxLenOne)
    /\ path2 = <<>>
    /\ paths = <<>>

\* two paths: the input of resolve and relative
TwoPaths ==
    /\ path1 \in Str(MaxLenTwo)
    /\ path2 \in Str(MaxLenTwo)
    /\ paths = <<>>

\* a sequence of paths: the input of resolve_n
ManyPaths ==
    /\ path1 = <<>>
    /\ path2 = <<>>
    /\ paths \in PathLists

InitIsAbsolute == callee = "is_absolute" /\ OnePath /\ InitCommon

InitResolveOne == callee = "resolve_one" /\ OnePath /\ InitCommon

InitResolve == callee = "resolve" /\ TwoPaths /\ InitCommon

InitRelative == callee = "relative" /\ TwoPaths /\ InitCommon

InitResolveN == callee = "resolve_n" /\ ManyPaths /\ InitCommon

CallIsAbsolute ==
    /\ op = Idle /\ callee = "is_absolute"
    /\ op' = "is_absolute"
    /\ flag' = is_absolute(path1, manipulation)
    /\ UNCHANGED <<callee, path1, path2, paths, manipulation, ret, prev>>

CallResolveOne ==
    /\ op = Idle /\ callee = "resolve_one"
    /\ op' = "resolve_one"
    /\ ret' = resolve_one(path1, manipulation)
    /\ UNCHANGED <<callee, path1, path2, paths, manipulation, prev, flag>>

\* resolve_one applied to what resolve_one returned
CallResolveOneAgain ==
    /\ op = "resolve_one"
    /\ ret # Abort
    /\ op' = "resolve_one_again"
    /\ prev' = ret
    /\ ret' = resolve_one(ret, manipulation)
    /\ UNCHANGED <<callee, path1, path2, paths, manipulation, flag>>

CallResolve ==
    /\ op = Idle /\ callee = "resolve"
    /\ op' = "resolve"
    /\ ret' = resolve(path1, path2, manipulation)
    /\ UNCHANGED <<callee, path1, path2, paths, manipulation, prev, flag>>

CallRelative ==
    /\ op = Idle /\ callee = "relative"
    /\ op' = "relative"
    /\ ret' = relative(path1, path2, manipulation)
    /\ UNCHANGED <<callee, path1, path2, paths, manipulation, prev, flag>>

CallResolveN ==
    /\ op = Idle /\ callee = "resolve_n"
    /\ op' = "resolve_n"
    /\ ret' = resolve_n(paths, manipulation)
    /\ UNCHANGED <<callee, path1, path2, paths, manipulation, prev, flag>>

SpecIsAbsolute == InitIsAbsolute /\ [][CallIsAbsolute]_vars

NextResolveOne == CallResolveOne \/ CallResolveOneAgain

SpecResolveOne == InitResolveOne /\ [][NextResolveOne]_vars

SpecResolve == InitResolve /\ [][CallResolve]_vars

SpecRelative == InitRelative /\ [][CallRelative]_vars

SpecResolveN == InitResolveN /\ [][CallResolveN]_vars

\* resolve and the two functions built on it
InitResolveAll == InitResolve \/ InitResolveOne \/ InitResolveN

NextResolveAll == CallResolve \/ CallResolveOne \/ CallResolveOneAgain \/ CallResolveN

SpecResolveAll == InitResolveAll /\ [][NextResolveAll]_vars

Init == InitIsAbsolute \/ InitResolveOne \/ InitResolve \/ InitRelative \/ InitResolveN

Next ==
    \/ CallIsAbsolute
    \/ CallResolveOne
    \/ CallResolveOneAgain
    \/ CallResolve
    \/ CallRelative
    \/ CallResolveN

Spec == Init /\ [][Next]_vars

---------------------------------------------------------------------------
(* The properties, in the words of the specification *)

\* p starts with the UNC marker, two backslashes
HasUnc(p) == Len(p) >= 2 /\ p[1] = "\\" /\ p[2] = "\\"

\* p starts with a drive marker, one letter and ":"
HasDrive(p) == Len(p) >= 2 /\ p[1] \in Letters /\ p[2] = ":"

HasPrefix(p) == HasUnc(p) \/ HasDrive(p)

StartsWithSeparator(p) == Len(p) >= 1 /\ p[1] \in Separators

\* the prefix of an absolute path: its UNC marker, its drive marker, or its leading separator
PrefixOf(p) == IF HasPrefix(p) THEN SubSeq(p, 1, 2) ELSE SubSeq(p, 1, 1)

\* p with exactly its prefix removed, "/" put back when the rest starts with no separator
WithoutPrefix(p) ==
    LET rest == SubSeq(p, Len(PrefixOf(p)) + 1, Len(p))
    IN  IF StartsWithSeparator(rest) THEN rest ELSE <<"/">> \o rest

\* p with its UNC or drive prefix, if any, replaced by one "/"
PrefixAsSlash(p) == IF HasPrefix(p) THEN <<"/">> \o SubSeq(p, 3, Len(p)) ELSE p

IsString(v) == v # Abort /\ \A i \in 1..Len(v) : v[i] \in Chars

\* C1: for every p, mode m and q absolute under is_absolute(q, m),
\* resolve(p, q, m) = resolve_one(q, m).
C1_AbsoluteOverride ==
    (op = "resolve" /\ is_absolute(path2, manipulation))
        => ret = resolve_one(path2, manipulation)

\* C2: resolve_one is idempotent: resolve_one(resolve_one(p, m), m) = resolve_one(p, m).
C2_ResolveOneIdempotent ==
    op = "resolve_one_again" => ret = prev

\* C3: under Windows, relative(from, to) aborts exactly when from or to is not
\* absolute under is_absolute(_, Windows); otherwise it returns a string.
C3_RelativeAbortsIffNotAbsolute ==
    (op = "relative" /\ manipulation = Windows)
        => /\ (ret = Abort) <=> ~(is_absolute(path1, Windows) /\ is_absolute(path2, Windows))
           /\ ret # Abort => IsString(ret)

C3_Witness ==
    /\ op = "relative" /\ manipulation = Windows
    /\ is_absolute(path1, Windows) /\ ~is_absolute(path2, Windows)
    /\ path2 # <<>>
    /\ ret = Abort

\* C4: for from, to absolute under Windows with equal prefixes (UNC marker, drive
\* marker, or the single leading separator), relative(from, to, Windows) is
\* relative_generic of the two paths with exactly that prefix removed.
C4_SamePrefixRelative ==
    (/\ op = "relative" /\ manipulation = Windows
     /\ is_absolute(path1, Windows) /\ is_absolute(path2, Windows)
     /\ PrefixOf(path1) = PrefixOf(path2))
        => ret = super_relative(WithoutPrefix(path1), WithoutPrefix(path2))

C6_IsAbsoluteClassification ==
    op = "is_absolute"
        => flag = IF manipulation = Default
                  THEN StartsWithSeparator(path1)
                  ELSE HasUnc(path1) \/ HasDrive(path1) \/ StartsWithSeparator(path1)

\* C7: under Windows, when path1 or path2 starts with a UNC or drive prefix,
\* resolve(path1, path2) is P ++ G: P the prefix of path2 if it has one, else of
\* path1; G resolve_generic of the inputs with their prefix replaced by "/"; for
\* the UNC marker the leading separator of G is dropped.  With no prefix on either
\* the result is resolve_generic(path1, path2).
C7_PrefixSelection ==
    (op = "resolve" /\ manipulation = Windows)
        => IF HasPrefix(path1) \/ HasPrefix(path2)
           THEN LET P == IF HasPrefix(path2) THEN SubSeq(path2, 1, 2) ELSE SubSeq(path1, 1, 2)
                    G == super_resolve(PrefixAsSlash(path1), PrefixAsSlash(path2))
                IN  IF P = <<"\\", "\\">>
                    THEN /\ ret = P \o Tail(G)
                         /\ Len(ret) >= 3 => ret[3] \notin Separators
                    ELSE ret = P \o G
           ELSE ret = super_resolve(path1, path2)

C7_Witness ==
    /\ op = "resolve" /\ manipulation = Windows
    /\ HasDrive(path1) /\ HasUnc(path2) /\ Len(path2) = 3
    /\ ret = path2

RECURSIVE LeftFold(_, _)
\* resolve(...resolve(resolve(p1, p2, m), p3, m)..., pn, m), for n >= 2
LeftFold(ps, m) ==
    IF Len(ps) = 2 THEN resolve(ps[1], ps[2], m)
    ELSE resolve(LeftFold(SubSeq(ps, 1, Len(ps) - 1), m), ps[Len(ps)], m)

\* C9: resolve_n([]) is "", resolve_n([p]) is resolve(p, ""), and for two or more
\* paths resolve_n is the left fold of resolve in input order.
C9_LeftFold ==
    op = "resolve_n"
        => ret = IF Len(paths) = 0 THEN <<>>
                 ELSE IF Len(paths) = 1 THEN resolve(paths[1], <<>>, manipulation)
                 ELSE LeftFold(paths, manipulation)

C9_Witness ==
    /\ op = "resolve_n" /\ manipulation = Windows
    /\ paths = << <<"a">>, <<"\\", "\\", "C">>, <<".", ".">>, <<"a">> >>
    /\ ret = <<"\\", "\\", "a">>

\* C10: resolve, resolve_n and resolve_one always return a value; in the Windows
\* prefixed branch the generic result r is non-empty and begins with a separator,
\* and the returned path is absolute under is_absolute(_, Windows).
C10_ResolveTotal ==
    /\ op \in {"resolve", "resolve_one", "resolve_one_again", "resolve_n"} => IsString(ret)
    /\ (/\ op = "resolve" /\ manipulation = Windows
        /\ (HasPrefix(path1) \/ HasPrefix(path2)))
          => /\ StartsWithSeparator(GenericResult(path1, path2))
             /\ ret # Abort /\ is_absolute(ret, Windows)

C10_Witness ==
    /\ op = "resolve" /\ manipulation = Windows
    /\ path1 = <<"\\", "\\">> /\ path2 = <<>>
    /\ ret = <<"\\", "\\">>

====
